---- MODULE Spec2Model ----
(***************************************************************************)
(* Model of the Globe party server (src/server/index.ts): the connection   *)
(* registry (userConnections), the entity store (debtors) and the          *)
(* add-debtor / remove-debtor fan-out, together with the part of the       *)
(* client's message handler that maintains its local debtors map.          *)
(***************************************************************************)
EXTENDS Integers, Sequences, FiniteSets, TLC

\* ------------------------------------------------------------------ bounds
\* Number of transport connections that ever connect.
NumConns == 3
\* Number of transport events (connect, close, error, failure) in a behaviour.
MaxEvents == 5

\* ------------------------------------------------------- values and inputs
ConnIds == <<"c1", "c2", "c3", "c4", "c5">>
Conns == {ConnIds[i] : i \in 1..NumConns}

\* A string-valued request parameter: null/undefined, or a string given as
\* its sequence of characters.
Null == [isNull |-> TRUE, chars |-> <<>>]
Str(s) == [isNull |-> FALSE, chars |-> s]
\* JavaScript truthiness of string | null | undefined.
Truthy(p) == ~p.isNull /\ p.chars # <<>>

\* The userId query parameter: absent (null), empty, or an identity token.
NoUserId == "<null>"

\* A connect request: the userId, lat and lng query parameters and the
\* coordinate the platform supplies in request.cf (null when it has none).
Request(u, lat, lng, cf) == [userId |-> u, lat |-> lat, lng |-> lng, cf |-> cf]

\* The requests connections arrive with ("x" stands for non-numeric text;
\* "c1" is an identity token that equals the id of connection c1).
Requests ==
  { Request(NoUserId, Str(<<"1", ".", "2">>), Str(<<"-", "1">>), Null),
    Request("", Null, Null, Str(<<"2">>)),
    Request("u1", Str(<<"1", ".", "2">>), Str(<<"-", "1">>), Null),
    Request("u1", Str(<<"2">>), Str(<<"2", "x">>), Str(<<"1">>)),
    Request("u1", Null, Str(<<"1">>), Null),
    Request(NoUserId, Str(<<"1">>), Str(<<>>), Null),
    Request("c1", Str(<<"x">>), Str(<<"-", "1">>), Null) }

\* A JavaScript number: NaN, or the decimal val / 10^exp (val carries the
\* sign; exp is the number of fractional digits, none of them trailing 0).
NaN == [nan |-> TRUE, val |-> 0, exp |-> 0]
Num(v) == [nan |-> FALSE, val |-> v, exp |-> 0]

RECURSIVE Dec(_, _)
\* The number v / 10^e in normal form.
Dec(v, e) ==
  IF e > 0 /\ v % 10 = 0 THEN Dec(v \div 10, e - 1)
  ELSE [nan |-> FALSE, val |-> v, exp |-> e]

DigitChars == <<"0", "1", "2", "3", "4", "5", "6", "7", "8", "9">>
Digit(ch) ==
  IF \E d \in 1..10 : DigitChars[d] = ch
  THEN (CHOOSE d \in 1..10 : DigitChars[d] = ch) - 1
  ELSE -1

RECURSIVE ParseDigits(_, _, _)
\* Value of the longest digit prefix of s from position i, acc so far.
ParseDigits(s, i, acc) ==
  IF i > Len(s) \/ Digit(s[i]) < 0 THEN acc
  ELSE ParseDigits(s, i + 1, acc * 10 + Digit(s[i]))

RECURSIVE DigitRunEnd(_, _)
\* The position after the run of digits of s that starts at position i.
DigitRunEnd(s, i) ==
  IF i > Len(s) \/ Digit(s[i]) < 0 THEN i ELSE DigitRunEnd(s, i + 1)

\* Mutant: parseInt, which stops at the decimal point.
parseInt(p) ==
  LET s == p.chars
      neg == Len(s) >= 1 /\ s[1] = "-"
      i0 == IF neg THEN 2 ELSE 1
  IN IF DigitRunEnd(s, i0) = i0 THEN NaN
     ELSE Num((IF neg THEN -1 ELSE 1) * ParseDigits(s, i0, 0))

\* parseFloat: the number written by the longest prefix of the form
\* [-]digits[.digits], NaN when there is no such prefix with a digit.
parseFloat(p) ==
  LET s == p.chars
      neg == Len(s) >= 1 /\ s[1] = "-"
      i0 == IF neg THEN 2 ELSE 1
      intEnd == DigitRunEnd(s, i0)
      hasDot == intEnd <= Len(s) /\ s[intEnd] = "."
      fracEnd == IF hasDot THEN DigitRunEnd(s, intEnd + 1) ELSE intEnd
      fracLen == IF hasDot THEN fracEnd - (intEnd + 1) ELSE 0
      whole == ParseDigits(s, i0, 0)
      mant == IF hasDot THEN ParseDigits(s, intEnd + 1, whole) ELSE whole
  IN IF intEnd = i0 /\ fracLen = 0 THEN NaN
     ELSE Dec((IF neg THEN -1 ELSE 1) * mant, fracLen)

RECURSIVE Pow10(_)
Pow10(e) == IF e = 0 THEN 1 ELSE 10 * Pow10(e - 1)

RECURSIVE NatToChars(_)
\* The decimal digits of a natural number.
NatToChars(n) ==
  IF n < 10 THEN <<DigitChars[n + 1]>>
  ELSE NatToChars(n \div 10) \o <<DigitChars[(n % 10) + 1]>>

RECURSIVE FracToChars(_, _)
\* The e fractional digits of f / 10^e.
FracToChars(f, e) ==
  IF e = 0 THEN <<>>
  ELSE FracToChars(f \div 10, e - 1) \o <<DigitChars[(f % 10) + 1]>>

\* Number.prototype.toString, as the client writes lat and lng into the
\* query and as JSON.stringify writes a finite number.
NumberToString(n) ==
  IF n.nan THEN <<"N", "a", "N">>
  ELSE LET a == IF n.val < 0 THEN -n.val ELSE n.val
           p == Pow10(n.exp)
       IN (IF n.val < 0 THEN <<"-">> ELSE <<>>)
            \o NatToChars(a \div p)
            \o (IF n.exp > 0 THEN <<".">> \o FracToChars(a % p, n.exp)
                ELSE <<>>)

\* A number after JSON.stringify and JSON.parse: NaN is written as null, a
\* finite number as its decimal text, which the receiver parses.
JsonNumber(n) ==
  IF n.nan THEN [isNull |-> TRUE, val |-> 0, exp |-> 0]
  ELSE LET r == parseFloat(Str(NumberToString(n)))
       IN [isNull |-> FALSE, val |-> r.val, exp |-> r.exp]

\* JSON.stringify of a DebtorInfo, as the receiver parses it.
JsonDebtor(d) ==
  [position |-> [lat |-> JsonNumber(d.position.lat),
                 lng |-> JsonNumber(d.position.lng),
                 id |-> d.position.id],
   payload |-> d.payload,
   name |-> d.name]

\* Filler for the debtor field of the messages that carry none.
NoDebtor ==
  [position |-> [lat |-> [isNull |-> TRUE, val |-> 0, exp |-> 0],
                 lng |-> [isNull |-> TRUE, val |-> 0, exp |-> 0], id |-> ""],
   payload |-> 0, name |-> ""]

\* The OutgoingMessage variants the server sends, and the error notice.
AddDebtorMsg(d) == [type |-> "add-debtor", id |-> "", debtor |-> JsonDebtor(d)]
RemoveDebtorMsg(userId) == [type |-> "remove-debtor", id |-> userId,
                            debtor |-> NoDebtor]
ErrorMsg == [type |-> "error", id |-> "", debtor |-> NoDebtor]

\* ------------------------------------------------------------------- state
VARIABLES
  phase,            \* per connection: "new", "open", "rejected", "errored", "closed"
  state,            \* conn.state: NoState or [userId, connectionId]
  conns,            \* getConnections(): the open connections, in accept order
  broken,           \* open connections whose send() throws
  userConnections,  \* Map<userId, Set<connectionId>>
  debtors,          \* Map<userId, DebtorInfo> in insertion order
  inbox,            \* per connection: the messages delivered to it since it
                    \* connected, in order; restarts empty when it disconnects
  events,           \* number of transport events handled so far
  generated,        \* number of payloads generated so far (Math.random draws)
  lastEvent,        \* history: the event handled by the last step
  created,          \* history: per record, the connections open when it was
                    \* created and the payload generated for it
  fallback,         \* history: the open connections that supplied no userId
                    \* and are keyed by conn.id
  rejectedAs        \* history: per connection rejected at connect and not
                    \* closed yet, the userId it asked for; else ""

vars == <<phase, state, conns, broken, userConnections, debtors, inbox,
          events, generated, lastEvent, created, fallback, rejectedAs>>

NoState == [userId |-> "", connectionId |-> ""]

\* Records of the history variable lastEvent.
NoRequest == Request(NoUserId, Null, Null, Null)
Event(op, c, userId, path, req) ==
  [op |-> op, conn |-> c, userId |-> userId, path |-> path, req |-> req]

\* ---------------------------------------------------------- Map operations
\* debtors is a sequence of entries [key, value] (Map iteration order).
DebtorKeys == {debtors[i].key : i \in 1..Len(debtors)}
MapHas(m, k) == \E i \in 1..Len(m) : m[i].key = k
MapGet(m, k) == (CHOOSE i \in 1..Len(m) : m[i].key = k)
MapValue(m, k) == m[MapGet(m, k)].value
MapDelete(m, k) == SelectSeq(m, LAMBDA e : e.key # k)

SeqToSet(s) == {s[i] : i \in 1..Len(s)}

\* ------------------------------------------------------------------ server
\* url.searchParams.get("userId") || conn.id
ResolveUserId(c, req) ==
  IF req.userId # NoUserId /\ req.userId # "" THEN req.userId ELSE c

\* The latitude and longitude strings: the query's when both are given,
\* else the platform's (request.cf).
ResolveLatitude(req) ==
  IF Truthy(req.lat) /\ Truthy(req.lng) THEN req.lat ELSE req.cf
ResolveLongitude(req) ==
  IF Truthy(req.lat) /\ Truthy(req.lng) THEN req.lng ELSE req.cf

\* Mutant: the missing-position test is dropped.
MissingPositionNever(req) == FALSE

\* if (!latitude || !longitude)
MissingPosition(req) ==
  ~Truthy(ResolveLatitude(req)) \/ ~Truthy(ResolveLongitude(req))

\* Mutant: the user's set is replaced by a new one.
TrackConnectionOverwrites(uc, userId, c) ==
  [u \in DOMAIN uc \cup {userId} |-> IF u = userId THEN {c} ELSE uc[u]]

\* userConnections after tracking connection c for userId.
TrackConnection(uc, userId, c) ==
  IF userId \in DOMAIN uc
  THEN [uc EXCEPT ![userId] = @ \cup {c}]
  ELSE (userId :> {c}) @@ uc

\* The business fields drawn with Math.random() for a new record: a value
\* that differs from every one drawn before.
FreshPayload(n) == n + 1

\* Mutant: the position is tagged with the connection's id.
PositionIdOfConnection(userId, c) == c

\* The id written into the position of a new record (id: userId).
PositionId(userId, c) == userId

\* The record created for a user that has none.
NewDebtor(userId, latitude, longitude, payload) ==
  [position |-> [lat |-> parseFloat(latitude),
                 lng |-> parseFloat(longitude),
                 id |-> userId],
   payload |-> payload,
   name |-> userId]

\* Mutant: the re-join draws the business fields again.
UpdatePositionRegenerates(debtorInfo, latitude, longitude, fresh) ==
  [debtorInfo EXCEPT !.position.lat = parseFloat(latitude),
                     !.position.lng = parseFloat(longitude),
                     !.payload = fresh]

\* The existing record after the position update of a re-join.
UpdatePosition(debtorInfo, latitude, longitude, fresh) ==
  [debtorInfo EXCEPT !.position.lat = parseFloat(latitude),
                     !.position.lng = parseFloat(longitude)]

\* The connections a broadcast sends to, in getConnections() order.
Recipients(cs, without) == SelectSeq(cs, LAMBDA c : c \notin without)

\* Index of the first recipient whose send throws, Len + 1 when none does.
FirstThrow(rs) ==
  IF \E i \in 1..Len(rs) : rs[i] \in broken
  THEN CHOOSE i \in 1..Len(rs) :
         rs[i] \in broken /\ \A j \in 1..(i - 1) : rs[j] \notin broken
  ELSE Len(rs) + 1

\* this.broadcast(msg, without): connection.send(msg) for each connection
\* not excluded; a send that throws ends the loop.
Broadcast(inb, cs, msg, without) ==
  LET rs == Recipients(cs, without)
      reached == {rs[i] : i \in 1..(FirstThrow(rs) - 1)}
  IN [c \in Conns |-> IF c \in reached THEN Append(inb[c], msg) ELSE inb[c]]

\* Mutant: the loop does not skip the user's own record.
OtherDebtorMsgsUnfiltered(m, userId) ==
  [i \in 1..Len(m) |-> AddDebtorMsg(m[i].value)]

\* The add-debtor messages of the other debtors, in Map order.
OtherDebtorMsgs(m, userId) ==
  LET others == SelectSeq(m, LAMBDA e : e.key # userId)
  IN [i \in 1..Len(others) |-> AddDebtorMsg(others[i].value)]

\* The sends of the re-join branch: the user's record, then the others.
RejoinMsgs(m, userId) ==
  <<AddDebtorMsg(MapValue(m, userId))>> \o OtherDebtorMsgs(m, userId)

\* Mutant: the re-join branch sends to every connection.
RejoinAudienceEveryone(c, cs) == cs

\* The connections the sends of the re-join branch go to.
RejoinAudience(c, cs) == {c}

\* connection.send(msg) for each msg of msgs, to each connection of audience.
SendAll(inb, audience, msgs) ==
  [d \in Conns |-> IF d \in audience THEN inb[d] \o msgs ELSE inb[d]]

\* Mutant: the add-debtor broadcast leaves out the new connection.
CreateWithoutNewcomer(c) == {c}

\* The connections that receive the new record on the create branch
\* (the exclusion list of that broadcast).
CreateWithout(c) == {}

\* Every handled event counts towards MaxEvents.
CountEvent == events < MaxEvents /\ events' = events + 1

OnConnect(c, req) ==
  /\ phase[c] = "new"
  /\ CountEvent
  /\ LET userId == ResolveUserId(c, req)
         latitude == ResolveLatitude(req)
         longitude == ResolveLongitude(req)
     IN
     IF MissingPosition(req)
     THEN \* error notice, conn.close(), return
       /\ inbox' = [inbox EXCEPT ![c] = Append(@, ErrorMsg)]
       /\ phase' = [phase EXCEPT ![c] = "rejected"]
       /\ lastEvent' = Event("connect", c, userId, "reject", req)
       /\ rejectedAs' = [rejectedAs EXCEPT ![c] = userId]
       /\ UNCHANGED <<state, conns, broken, userConnections, debtors,
                      generated, created, fallback>>
     ELSE
       /\ phase' = [phase EXCEPT ![c] = "open"]
       /\ UNCHANGED rejectedAs
       /\ fallback' = IF userId = req.userId THEN fallback
                      ELSE fallback \cup {c}
       /\ conns' = Append(conns, c)
       /\ state' = [state EXCEPT ![c] =
                      [userId |-> userId, connectionId |-> c]]
       /\ userConnections' = TrackConnection(userConnections, userId, c)
       /\ UNCHANGED broken
       /\ IF ~MapHas(debtors, userId)
          THEN
            LET debtorInfo ==
                  [NewDebtor(userId, latitude, longitude,
                             FreshPayload(generated))
                     EXCEPT !.position.id = PositionId(userId, c)]
            IN /\ generated' = generated + 1
               /\ debtors' = Append(debtors,
                                    [key |-> userId, value |-> debtorInfo])
               /\ inbox' = Broadcast(inbox, conns', AddDebtorMsg(debtorInfo),
                                     CreateWithout(c))
               /\ created' = (userId :> [peers |-> SeqToSet(conns),
                                         payload |-> debtorInfo.payload])
                             @@ created
               /\ lastEvent' = Event("connect", c, userId, "create", req)
          ELSE
            /\ debtors' = [debtors EXCEPT ![MapGet(debtors, userId)].value =
                             UpdatePosition(@, latitude, longitude,
                                            FreshPayload(generated))]
            /\ inbox' = SendAll(inbox, RejoinAudience(c, SeqToSet(conns')),
                                RejoinMsgs(debtors', userId))
            /\ lastEvent' = Event("connect", c, userId, "rejoin", req)
            /\ UNCHANGED <<generated, created>>

\* Mutant: the set is used as a count; an id that is not in it takes
\* another one out.
UntrackConnectionCounts(uc, userId, connectionId) ==
  [uc EXCEPT ![userId] =
     @ \ {IF connectionId \in @ THEN connectionId
          ELSE CHOOSE other \in @ : TRUE}]

\* Mutant: the user's whole set is cleared.
UntrackConnectionClears(uc, userId, connectionId) ==
  [uc EXCEPT ![userId] = {}]

\* userConnections after connectionId is deleted from userId's set.
UntrackConnection(uc, userId, connectionId) ==
  [uc EXCEPT ![userId] = @ \ {connectionId}]

\* Mutant: the size test is dropped, every disconnect evicts the record.
WasLastConnectionAlways(uc, userId) == TRUE

\* if (userConns.size === 0)
WasLastConnection(uc, userId) == uc[userId] = {}

\* Mutant: the remove-debtor broadcast excludes nobody.
RemoveWithoutNobody(connectionId) == {}

\* The exclusion list of the remove-debtor broadcast.
RemoveWithout(connectionId) == {connectionId}

\* The inboxes when the client of connection c is gone: what it had received
\* is dropped, and inbox[c] holds what the server sends to c from then on.
Departed(inb, c) == [inb EXCEPT ![c] = <<>>]

\* Mutant: every disconnect announces the removal of the connection's own
\* id to all other connections, whether the connection has state or not.
handleDisconnectOfConnection(c, op, ph) ==
  /\ CountEvent
  /\ phase' = [phase EXCEPT ![c] = ph]
  /\ conns' = SelectSeq(conns, LAMBDA d : d # c)
  /\ broken' = broken \ {c}
  /\ fallback' = fallback \ {c}
  /\ rejectedAs' = [rejectedAs EXCEPT ![c] = IF ph = "closed" THEN "" ELSE @]
  /\ inbox' = Broadcast(Departed(inbox, c), conns, RemoveDebtorMsg(c), {c})
  /\ lastEvent' = Event(op, c, rejectedAs[c], "nostate", NoRequest)
  /\ UNCHANGED <<state, generated, userConnections, debtors, created>>

\* handleDisconnect(connection), entered from onClose and onError alike;
\* op names the event and ph the phase the transport leaves c in.  During
\* the handler c is still enumerated by getConnections(); the transport
\* drops it afterwards.
handleDisconnect(c, op, ph) ==
  /\ CountEvent
  /\ phase' = [phase EXCEPT ![c] = ph]
  /\ conns' = SelectSeq(conns, LAMBDA d : d # c)
  /\ broken' = broken \ {c}
  /\ fallback' = fallback \ {c}
  /\ rejectedAs' = [rejectedAs EXCEPT ![c] = IF ph = "closed" THEN "" ELSE @]
  /\ UNCHANGED <<state, generated>>
  /\ IF state[c] = NoState
     THEN /\ lastEvent' = Event(op, c, rejectedAs[c], "nostate", NoRequest)
          /\ inbox' = Departed(inbox, c)
          /\ UNCHANGED <<userConnections, debtors, created>>
     ELSE
       LET userId == state[c].userId
           connectionId == state[c].connectionId
       IN
       IF userId \notin DOMAIN userConnections
       THEN /\ lastEvent' = Event(op, c, userId, "noconns", NoRequest)
            /\ inbox' = Departed(inbox, c)
            /\ UNCHANGED <<userConnections, debtors, created>>
       ELSE
         LET uc == UntrackConnection(userConnections, userId, connectionId)
         IN
         IF WasLastConnection(uc, userId)
         THEN
           /\ userConnections' =
                [u \in DOMAIN uc \ {userId} |-> uc[u]]
           /\ debtors' = MapDelete(debtors, userId)
           /\ inbox' = Broadcast(Departed(inbox, c), conns,
                                 RemoveDebtorMsg(userId),
                                 RemoveWithout(connectionId))
           /\ created' = [u \in DOMAIN created \ {userId} |-> created[u]]
           /\ lastEvent' = Event(op, c, userId, "last", NoRequest)
         ELSE
           /\ userConnections' = uc
           /\ lastEvent' = Event(op, c, userId,
                                 IF connectionId \in userConnections[userId]
                                 THEN "notlast" ELSE "absent", NoRequest)
           /\ inbox' = Departed(inbox, c)
           /\ UNCHANGED <<debtors, created>>

\* The transport reports the close of c (after an error event or without).
OnClose(c) ==
  /\ phase[c] \in {"open", "rejected", "errored"}
  /\ handleDisconnect(c, "close", "closed")

\* Mutant: onError only logs; the cleanup is left to the close event.
OnErrorIgnored(c) ==
  /\ phase[c] \in {"open", "rejected"}
  /\ CountEvent
  /\ phase' = [phase EXCEPT ![c] = "errored"]
  /\ conns' = SelectSeq(conns, LAMBDA d : d # c)
  /\ broken' = broken \ {c}
  /\ fallback' = fallback \ {c}
  /\ inbox' = Departed(inbox, c)
  /\ lastEvent' = Event("error", c, state[c].userId, "ignored", NoRequest)
  /\ UNCHANGED <<state, generated, userConnections, debtors, created,
                 rejectedAs>>

\* The transport reports an error on c; its close event follows later.
OnError(c) ==
  /\ phase[c] \in {"open", "rejected"}
  /\ handleDisconnect(c, "error", "errored")

\* The socket of an open connection fails: from now on send() to it throws,
\* until the transport reports its close or error.
Break(c) ==
  /\ phase[c] = "open"
  /\ c \notin broken
  /\ CountEvent
  /\ broken' = broken \cup {c}
  /\ lastEvent' = Event("break", c, "", "", NoRequest)
  /\ UNCHANGED <<phase, state, conns, userConnections, debtors, inbox,
                 generated, created, fallback, rejectedAs>>

Init ==
  /\ phase = [c \in Conns |-> "new"]
  /\ state = [c \in Conns |-> NoState]
  /\ conns = <<>>
  /\ broken = {}
  /\ userConnections = << >>
  /\ debtors = <<>>
  /\ inbox = [c \in Conns |-> <<>>]
  /\ generated = 0
  /\ events = 0
  /\ lastEvent = Event("init", "", "", "", NoRequest)
  /\ created = << >>
  /\ fallback = {}
  /\ rejectedAs = [c \in Conns |-> ""]

Connect == \E c \in Conns, req \in Requests : OnConnect(c, req)
Close == \E c \in Conns : OnClose(c)
Error == \E c \in Conns : OnError(c)
SendFailure == \E c \in Conns : Break(c)

\* Reliable transport: no send ever throws.
Next == Connect \/ Close \/ Error
Spec == Init /\ [][Next]_vars

\* Transport with failing sends.
NextSendError == Connect \/ Close \/ Error \/ SendFailure
SpecSendError == Init /\ [][NextSendError]_vars

\* ------------------------------------------------------------------ client
RECURSIVE ClientDebtors(_)
\* The keys of the client's debtors map after onMessage has handled msgs:
\* add-debtor and update-debtor set message.debtor.position.id,
\* remove-debtor deletes message.id, anything else is ignored.
ClientDebtors(msgs) ==
  IF msgs = <<>> THEN {}
  ELSE LET prev == ClientDebtors(SubSeq(msgs, 1, Len(msgs) - 1))
           m == msgs[Len(msgs)]
       IN CASE m.type \in {"add-debtor", "update-debtor"} ->
                 prev \cup {m.debtor.position.id}
            [] m.type = "remove-debtor" -> prev \ {m.id}
            [] OTHER -> prev

\* The client's state: the keys of its debtors map, the keys of the debtors
\* map captured by the onMessage closure of the last render, the counter.
ClientInit == [debtors |-> {}, seen |-> {}, counter |-> 0]

\* onMessage(evt) in client state st: the states it can end in.  The
\* handler tests debtors.has against the map of the render that created
\* it; a re-render that renews the handler may or may not happen before
\* the next message.
ClientOnMessage(st, m) ==
  LET next ==
        CASE m.type \in {"add-debtor", "update-debtor"} ->
               [st EXCEPT
                  !.debtors = @ \cup {m.debtor.position.id},
                  !.counter = IF m.type = "add-debtor"
                                 /\ m.debtor.position.id \notin st.seen
                              THEN @ + 1 ELSE @]
          [] m.type = "remove-debtor" ->
               [st EXCEPT !.debtors = @ \ {m.id}, !.counter = @ - 1]
          [] OTHER -> st
  IN {next, [next EXCEPT !.seen = next.debtors]}

RECURSIVE ClientStates(_)
\* The client states possible after onMessage has handled msgs in order.
ClientStates(msgs) ==
  IF msgs = <<>> THEN {ClientInit}
  ELSE UNION {ClientOnMessage(st, msgs[Len(msgs)]) :
                st \in ClientStates(SubSeq(msgs, 1, Len(msgs) - 1))}

\* ------------------------------------------------------------------ claims
\* The live connections: accepted at connect, no close or error handled yet.
Live == {c \in Conns : phase[c] = "open"}
LiveOf(userId) == {c \in Live : state[c].userId = userId}
LiveIdentities == {state[c].userId : c \in Live}

IsAdd(m, userId) == m.type = "add-debtor" /\ m.debtor.position.id = userId
IsRemove(m, userId) == m.type = "remove-debtor" /\ m.id = userId

\* C1: in every state (each step is one fully processed connect, close or
\* error event) the identities that have a record in debtors are exactly
\* the identities of the live connections.
C1_RegistryStoreConsistent == DebtorKeys = LiveIdentities

\* C1 witness: the last connection of one identity has just gone while
\* another identity is still held by two live connections.
C1_Witness ==
  /\ lastEvent.op \in {"close", "error"}
  /\ lastEvent.path = "last"
  /\ \E u \in DebtorKeys : Cardinality(LiveOf(u)) = 2

\* C2 (as claimed): after a connect that creates the record of an unseen
\* identity, the new connection has received an add-debtor for every record
\* in the store, its own included, and every previously live connection has
\* received the add-debtor of the new record as its latest message.
C2_NewcomerGetsSnapshot ==
  (lastEvent.op = "connect" /\ lastEvent.path = "create") =>
    LET c == lastEvent.conn
    IN /\ \A k \in DebtorKeys :
            \E i \in 1..Len(inbox[c]) : IsAdd(inbox[c][i], k)
       /\ \A p \in Live \ {c} :
            /\ inbox[p] # <<>>
            /\ IsAdd(inbox[p][Len(inbox[p])], lastEvent.userId)

\* C3 (as claimed): after every event, each live connection's client holds
\* exactly the identities of the entity store.
C3_ViewConsistent ==
  \A c \in Live : ClientDebtors(inbox[c]) = DebtorKeys

\* Steps, seen from a pair of states: connection c is accepted, and a live
\* connection c has its first close or error event handled.
AcceptStep(c) == phase[c] = "new" /\ phase'[c] = "open"
ConnectStep(c) == phase[c] = "new" /\ phase'[c] # "new"
DisconnectStep(c) == phase[c] = "open" /\ phase'[c] \in {"errored", "closed"}

RECURSIVE AddsSinceRemove(_, _)
\* Number of add-debtor messages for userId in msgs after the last
\* remove-debtor for userId.
AddsSinceRemove(msgs, userId) ==
  IF msgs = <<>> THEN 0
  ELSE LET m == msgs[Len(msgs)]
           front == SubSeq(msgs, 1, Len(msgs) - 1)
       IN IF IsRemove(m, userId) THEN 0
          ELSE AddsSinceRemove(front, userId)
                 + (IF IsAdd(m, userId) THEN 1 ELSE 0)

RecordsOf(m, userId) == {i \in 1..Len(m) : m[i].key = userId}

\* C4: when a connection is accepted for an identity that already has a
\* live connection, the store still holds one record for it, its payload is
\* the one generated when the record was created, no payload is generated,
\* and each still-live peer that was open before the record was created
\* has received one add-debtor for the identity since then.
C4_SecondConnectReusesRecord ==
  [][\A c \in Conns :
       (AcceptStep(c) /\ LiveOf(state'[c].userId) # {}) =>
         LET userId == state'[c].userId
         IN /\ Cardinality(RecordsOf(debtors', userId)) = 1
            /\ userId \in DOMAIN created
            /\ MapValue(debtors', userId).payload = created[userId].payload
            /\ generated' = generated
            /\ \A p \in created[userId].peers \cap Live :
                 AddsSinceRemove(inbox'[p], userId) = 1]_vars

\* C4 witness: a second connection of an identity has been accepted while a
\* peer that was open before the identity's record was created is live.
C4_Witness ==
  /\ lastEvent.op = "connect" /\ lastEvent.path = "rejoin"
  /\ Cardinality(LiveOf(lastEvent.userId)) = 2
  /\ created[lastEvent.userId].peers \cap Live # {}

\* C5: handling the close or error of a live connection whose identity has
\* another live connection sends no message to anyone and leaves the
\* entity store as it was.
C5_NotLastIsSilent ==
  [][\A c \in Conns :
       (DisconnectStep(c) /\ LiveOf(state[c].userId) \ {c} # {}) =>
         /\ debtors' = debtors
         /\ inbox'[c] = <<>>
         /\ \A p \in Conns \ {c} : inbox'[p] = inbox[p]]_vars

\* C5 witness: one of two connections of an identity has gone while a
\* connection of another identity is live.
C5_Witness ==
  /\ lastEvent.op \in {"close", "error"} /\ lastEvent.path = "notlast"
  /\ phase[lastEvent.conn] \in {"errored", "closed"}
  /\ LiveOf(lastEvent.userId) # {}
  /\ Live \ LiveOf(lastEvent.userId) # {}

\* C6: handling the close or error of the last live connection c of an
\* identity removes the identity's record and appends one remove-debtor for
\* it to the messages of every connection that stays live; c gets none.
C6_LastRemovesAndNotifies ==
  [][\A c \in Conns :
       (DisconnectStep(c) /\ LiveOf(state[c].userId) = {c}) =>
         LET userId == state[c].userId
         IN /\ ~MapHas(debtors', userId)
            /\ inbox'[c] = <<>>
            /\ \A p \in Live \ {c} :
                 inbox'[p] = Append(inbox[p], RemoveDebtorMsg(userId))]_vars

\* C6 witness: the last connection of an identity has gone and two other
\* connections are live.
C6_Witness ==
  /\ lastEvent.op \in {"close", "error"} /\ lastEvent.path = "last"
  /\ Cardinality(Live) = 2

\* What a rejected connect does: one error message to c, c closed, nothing
\* registered or stored, nothing sent to others.
Rejected(c) ==
  /\ phase'[c] = "rejected"
  /\ inbox'[c] = <<ErrorMsg>>
  /\ conns' = conns /\ state' = state
  /\ userConnections' = userConnections
  /\ debtors' = debtors
  /\ \A p \in Conns \ {c} : inbox'[p] = inbox[p]

LacksLatLng(req) == ~Truthy(req.lat) \/ ~Truthy(req.lng)

\* C7 (as claimed): a connect whose request lacks lat or lng is rejected,
\* whatever else the request carries.
C7_NoFallback ==
  [][\A c \in Conns :
       (ConnectStep(c) /\ LacksLatLng(lastEvent'.req)) => Rejected(c)]_vars

\* C7 (amended): a connect whose request lacks lat or lng and whose
\* platform metadata (request.cf) has no coordinates either is rejected; a
\* connect that lacks lat or lng but has request.cf coordinates is
\* accepted.
C7_RejectedWithoutAnyPosition ==
  [][\A c \in Conns :
       (ConnectStep(c) /\ LacksLatLng(lastEvent'.req)) =>
         IF Truthy(lastEvent'.req.cf) THEN phase'[c] = "open"
         ELSE Rejected(c)]_vars

\* C7 witness: a connect without position has been rejected while other
\* connections are live.
C7_Witness ==
  /\ lastEvent.op = "connect" /\ lastEvent.path = "reject"
  /\ LacksLatLng(lastEvent.req)
  /\ inbox[lastEvent.conn] = <<ErrorMsg>>
  /\ Live # {}

\* C8 (as claimed): when a send of a broadcast throws for connection x, the
\* other recipients of the broadcast still get the message and x is
\* cleaned up like a closed connection (dropped from the registry, no
\* longer live).
C8_SendErrorIsolated ==
  [][(lastEvent'.op \in {"connect", "close", "error"}
        /\ lastEvent'.path \in {"create", "last"}) =>
       LET c == lastEvent'.conn
           userId == lastEvent'.userId
           adding == lastEvent'.path = "create"
           msg == IF adding THEN AddDebtorMsg(MapValue(debtors', userId))
                  ELSE RemoveDebtorMsg(userId)
           rs == IF adding THEN SeqToSet(conns') ELSE SeqToSet(conns) \ {c}
       IN \A x \in rs \cap broken :
            /\ \A p \in rs \ broken : inbox'[p] = Append(inbox[p], msg)
            /\ phase'[x] # "open"
            /\ \A u \in DOMAIN userConnections' :
                 x \notin userConnections'[u]]_vars

\* C9: after a re-join the new connection has received, first, the
\* add-debtor of its identity's record as stored, with the position of the
\* request, and then one add-debtor for each other record of the store, so
\* that its client holds exactly the identities of the store.
C9_RejoinSnapshot ==
  (lastEvent.op = "connect" /\ lastEvent.path = "rejoin") =>
    LET c == lastEvent.conn
        userId == lastEvent.userId
        box == inbox[c]
    IN /\ Len(box) = Len(debtors)
       /\ box[1].type = "add-debtor"
       /\ box[1].debtor = JsonDebtor(MapValue(debtors, userId))
       /\ box[1].debtor.position =
            [lat |-> JsonNumber(parseFloat(ResolveLatitude(lastEvent.req))),
             lng |-> JsonNumber(parseFloat(ResolveLongitude(lastEvent.req))),
             id |-> userId]
       /\ \A k \in DebtorKeys \ {userId} :
            Cardinality({i \in 2..Len(box) : IsAdd(box[i], k)}) = 1
       /\ ClientDebtors(box) = DebtorKeys

\* C9 witness: a re-join has happened while the record of another identity
\* exists, and the new connection has received both records.
C9_Witness ==
  /\ lastEvent.op = "connect" /\ lastEvent.path = "rejoin"
  /\ Len(debtors) = 2
  /\ Len(inbox[lastEvent.conn]) = 2
  /\ IsAdd(inbox[lastEvent.conn][1], lastEvent.userId)

\* C10: a re-join sends nothing to the connections other than the new one,
\* and in the store it changes at most lat and lng of the re-joining
\* identity's record.
C10_RejoinFrame ==
  [][\A c \in Conns :
       (AcceptStep(c) /\ MapHas(debtors, state'[c].userId)) =>
         /\ \A p \in Conns \ {c} : inbox'[p] = inbox[p]
         /\ Len(debtors') = Len(debtors)
         /\ \A i \in 1..Len(debtors) :
              /\ debtors'[i].key = debtors[i].key
              /\ debtors'[i].value.payload = debtors[i].value.payload
              /\ debtors'[i].value.name = debtors[i].value.name
              /\ debtors'[i].value.position.id = debtors[i].value.position.id
              /\ debtors[i].key # state'[c].userId =>
                   debtors'[i] = debtors[i]]_vars

\* C10 witness: a re-join has changed the position of its identity's
\* record, another connection of the identity still holds the old one, and
\* a connection of another identity is live.
C10_Witness ==
  /\ lastEvent.op = "connect" /\ lastEvent.path = "rejoin"
  /\ Live \ LiveOf(lastEvent.userId) # {}
  /\ \E q \in LiveOf(lastEvent.userId) \ {lastEvent.conn} :
       \E i \in 1..Len(inbox[q]) :
         /\ IsAdd(inbox[q][i], lastEvent.userId)
         /\ inbox[q][i].debtor.position #
              JsonDebtor(MapValue(debtors, lastEvent.userId)).position

\* C11: a connect that is accepted for an identity without a record
\* creates the record and appends one add-debtor for it to the messages of
\* every live connection, the new connection included.
C11_CreateBroadcastsToAll ==
  [][\A c \in Conns :
       (AcceptStep(c) /\ ~MapHas(debtors, state'[c].userId)) =>
         LET userId == state'[c].userId
         IN /\ Cardinality(RecordsOf(debtors', userId)) = 1
            /\ Len(debtors') = Len(debtors) + 1
            /\ \A p \in Live \cup {c} :
                 /\ Len(inbox'[p]) = Len(inbox[p]) + 1
                 /\ SubSeq(inbox'[p], 1, Len(inbox[p])) = inbox[p]
                 /\ IsAdd(inbox'[p][Len(inbox'[p])], userId)
                 /\ inbox'[p][Len(inbox'[p])].debtor =
                      JsonDebtor(MapValue(debtors', userId))]_vars

\* C11 witness: a record has been created while two other connections
\* were live, and the new connection has received its add-debtor.
C11_Witness ==
  /\ lastEvent.op = "connect" /\ lastEvent.path = "create"
  /\ Cardinality(Live) = 3
  /\ inbox[lastEvent.conn] # <<>>
  /\ IsAdd(inbox[lastEvent.conn][1], lastEvent.userId)

\* Positions of the add-debtor and of the remove-debtor messages for userId.
AddsAt(msgs, userId) == {i \in 1..Len(msgs) : IsAdd(msgs[i], userId)}
RemovesAt(msgs, userId) == {i \in 1..Len(msgs) : IsRemove(msgs[i], userId)}

\* The identities a connection can hear about.
Identities == Conns \cup {"u1"}

\* C12: in the messages of a live connection, between two add-debtor for
\* one identity there is a remove-debtor for it, and between two
\* remove-debtor for one identity there is an add-debtor for it.
C12_AddRemoveAlternate ==
  \A p \in Live : \A u \in Identities :
    /\ \A i, j \in AddsAt(inbox[p], u) :
         i < j => \E k \in RemovesAt(inbox[p], u) : i < k /\ k < j
    /\ \A i, j \in RemovesAt(inbox[p], u) :
         i < j => \E k \in AddsAt(inbox[p], u) : i < k /\ k < j

\* C12 witness: a live connection has received add-debtor, remove-debtor
\* and add-debtor again for one identity.
C12_Witness ==
  \E p \in Live : \E u \in Identities :
    /\ Cardinality(AddsAt(inbox[p], u)) = 2
    /\ Cardinality(RemovesAt(inbox[p], u)) = 1

\* The coordinates clients connect with.
Coordinates == {Dec(12, 1), Num(-1), Num(1), Num(2)}

\* The add-debtor that a connect event sends to the new connection for its
\* own identity: the broadcast one on the create branch, the first of the
\* snapshot on the re-join branch.
OwnAdd(c, path) ==
  IF path = "create" THEN inbox[c][Len(inbox[c])] ELSE inbox[c][1]

\* C13: after an accepted connect of identity I whose latitude and
\* longitude strings are the decimal texts of the numbers a and b, on the
\* create branch and on the re-join branch alike, the record of I has the
\* position {lat: a, lng: b, id: I}, and the add-debtor sent to the new
\* connection carries that position.
C13_PositionRoundTrip ==
  (lastEvent.op = "connect" /\ lastEvent.path \in {"create", "rejoin"}) =>
    LET c == lastEvent.conn
        userId == lastEvent.userId
        latitude == ResolveLatitude(lastEvent.req)
        longitude == ResolveLongitude(lastEvent.req)
    IN \A a, b \in Coordinates :
         (latitude = Str(NumberToString(a))
            /\ longitude = Str(NumberToString(b))) =>
           /\ MapValue(debtors, userId).position =
                [lat |-> a, lng |-> b, id |-> userId]
           /\ inbox[c] # <<>>
           /\ OwnAdd(c, lastEvent.path).type = "add-debtor"
           /\ OwnAdd(c, lastEvent.path).debtor.position =
                [lat |-> [isNull |-> FALSE, val |-> a.val, exp |-> a.exp],
                 lng |-> [isNull |-> FALSE, val |-> b.val, exp |-> b.exp],
                 id |-> userId]

\* C13 witness: a re-join with latitude 1.2 and longitude -1 has been
\* accepted and the record holds that position.
C13_Witness ==
  /\ lastEvent.op = "connect" /\ lastEvent.path = "rejoin"
  /\ ResolveLatitude(lastEvent.req) = Str(NumberToString(Dec(12, 1)))
  /\ ResolveLongitude(lastEvent.req) = Str(NumberToString(Num(-1)))
  /\ MapValue(debtors, lastEvent.userId).position.lat = Dec(12, 1)
  /\ MapValue(debtors, lastEvent.userId).position.lng = Num(-1)

\* C14: every record of the store is stored under a non-empty key, its
\* position.id equals that key, and no two records share a key.
C14_OneRecordPerIdentity ==
  /\ \A i \in 1..Len(debtors) :
       /\ debtors[i].key # ""
       /\ debtors[i].value.position.id = debtors[i].key
  /\ \A i, j \in 1..Len(debtors) :
       debtors[i].key = debtors[j].key => i = j

\* C14 witness: the store holds two records, one of them shared by two
\* live connections, one of which connected under a token equal to the
\* other's connection id.
C14_Witness ==
  /\ Len(debtors) = 2
  /\ \E c, d \in Live :
       c # d /\ state[c].userId = c /\ state[d].userId = c

\* The registry, the store and the messages after the disconnect of
\* connection c is handled in the current state, with no send failing: c
\* leaves its identity's set; if the set empties, the set and the record
\* go and every other open connection gets one remove-debtor.
DisconnectResult(c) ==
  LET userId == state[c].userId
      tracked == state[c] # NoState /\ userId \in DOMAIN userConnections
      rest == IF tracked THEN userConnections[userId] \ {c} ELSE {}
      last == tracked /\ rest = {}
  IN [registry |->
        IF ~tracked THEN userConnections
        ELSE IF last
        THEN [u \in DOMAIN userConnections \ {userId} |-> userConnections[u]]
        ELSE [userConnections EXCEPT ![userId] = rest],
      store |->
        IF last THEN SelectSeq(debtors, LAMBDA e : e.key # userId)
        ELSE debtors,
      messages |->
        [p \in Conns |->
           IF p = c THEN <<>>
           ELSE IF last /\ p \in SeqToSet(conns)
           THEN Append(inbox[p], RemoveDebtorMsg(userId))
           ELSE inbox[p]]]

\* C15: from a state in which connection c can get a close as well as an
\* error event, the step that handles either event ends in the same
\* registry, the same store and the same messages.
C15_ErrorIsClose ==
  [][\A c \in Conns :
       (phase[c] \in {"open", "rejected"}
          /\ phase'[c] \in {"errored", "closed"}) =>
         /\ userConnections' = DisconnectResult(c).registry
         /\ debtors' = DisconnectResult(c).store
         /\ inbox' = DisconnectResult(c).messages]_vars

\* C15 witness: an error event of the last connection of an identity has
\* been handled and a live connection has received the remove-debtor.
C15_Witness ==
  /\ lastEvent.op = "error" /\ lastEvent.path = "last"
  /\ \E p \in Live :
       /\ inbox[p] # <<>>
       /\ IsRemove(inbox[p][Len(inbox[p])], lastEvent.userId)

\* C16: no record in the store has an unparseable (NaN) latitude or
\* longitude, no add-debtor in any connection's messages carries one (a
\* NaN is serialised as null), and every open connection was accepted
\* with coordinates that parse to numbers.
C16_NoUnparseablePosition ==
  /\ \A i \in 1..Len(debtors) :
       /\ ~debtors[i].value.position.lat.nan
       /\ ~debtors[i].value.position.lng.nan
  /\ \A c \in Conns : \A i \in 1..Len(inbox[c]) :
       inbox[c][i].type = "add-debtor" =>
         /\ ~inbox[c][i].debtor.position.lat.isNull
         /\ ~inbox[c][i].debtor.position.lng.isNull
  /\ (lastEvent.op = "connect" /\ phase[lastEvent.conn] = "open") =>
       /\ ~parseFloat(ResolveLatitude(lastEvent.req)).nan
       /\ ~parseFloat(ResolveLongitude(lastEvent.req)).nan

\* C17: a connection f that supplied no userId is keyed by its own
\* connection id; while it is open no other connection is accepted under
\* that identity and its record stays as it is; the record is in the store
\* as long as f is open and leaves the store when f disconnects.
C17_FallbackIdentityUnshared ==
  [][\A f \in fallback :
       /\ state[f].userId = f
       /\ \A c \in Conns \ {f} : AcceptStep(c) => state'[c].userId # f
       /\ phase'[f] = "open" =>
            /\ MapHas(debtors', f)
            /\ MapValue(debtors', f) = MapValue(debtors, f)
       /\ DisconnectStep(f) => ~MapHas(debtors', f)]_vars

\* C18: userConnections holds no empty set, every open connection's id is
\* in the set stored under its identity, and every id in a set is an open
\* connection with that identity.
C18_IndexMatchesConnections ==
  /\ \A u \in DOMAIN userConnections : userConnections[u] # {}
  /\ \A c \in Live :
       /\ state[c].userId \in DOMAIN userConnections
       /\ state[c].connectionId \in userConnections[state[c].userId]
  /\ \A u \in DOMAIN userConnections : \A id \in userConnections[u] :
       id \in Live /\ state[id].userId = u

\* C18 witness: the only connection of one identity has just gone, its set
\* was dropped, and another identity's set of two connections remains.
C18_Witness ==
  /\ lastEvent.op \in {"close", "error"} /\ lastEvent.path = "last"
  /\ \E u \in DOMAIN userConnections : Cardinality(userConnections[u]) = 2

\* C19: every remove-debtor for an identity in a connection's messages
\* comes after an add-debtor for that identity with no remove-debtor for
\* it in between, i.e. the receiver holds the identity when it arrives.
C19_RemoveOnlyWhenHeld ==
  \A p \in Live : \A i \in 1..Len(inbox[p]) :
    inbox[p][i].type = "remove-debtor" =>
      AddsSinceRemove(SubSeq(inbox[p], 1, i - 1), inbox[p][i].id) > 0

\* C20: the close event of a connection whose error event was handled
\* before changes neither userConnections nor debtors and sends nothing,
\* whatever happened to other connections of its identity in between.
C20_SecondDeliveryChangesNothing ==
  [][\A c \in Conns :
       (phase[c] = "errored" /\ phase'[c] = "closed") =>
         /\ userConnections' = userConnections
         /\ debtors' = debtors
         /\ inbox' = inbox]_vars

\* C20 witness: a close event was handled for a connection that had left
\* its identity's set at its error event, while the identity has a set
\* (a connection of the identity stayed or connected in between) and
\* another connection is open to receive messages.
C20_Witness ==
  /\ lastEvent.op = "close" /\ lastEvent.path = "absent"
  /\ LiveOf(lastEvent.userId) # {}
  /\ Live \ LiveOf(lastEvent.userId) # {}

\* C21: the close or error event of a connection that was rejected at
\* connect (it has no saved state) leaves userConnections and debtors as
\* they are and sends nothing to any connection, also when the userId it
\* asked for is the identity of open connections.
C21_RejectedDisconnectChangesNothing ==
  [][\A c \in Conns :
       (state[c] = NoState /\ phase[c] \in {"rejected", "errored"}
          /\ phase'[c] # phase[c]) =>
         /\ userConnections' = userConnections
         /\ debtors' = debtors
         /\ \A p \in Conns \ {c} : inbox'[p] = inbox[p]
         /\ inbox'[c] = <<>>]_vars

\* C21 witness: the disconnect of a rejected connection has been handled
\* while an open connection has the identity the rejected one asked for
\* and the record of that identity is in the store.
C21_Witness ==
  /\ lastEvent.op \in {"close", "error"} /\ lastEvent.path = "nostate"
  /\ LiveOf(lastEvent.userId) # {}
  /\ MapHas(debtors, lastEvent.userId)

\* C22: after every message of the sequence the server has sent to an
\* open connection, the client's counter is the number of entries of its
\* debtors map and is not negative.
C22_CounterIsMapSize ==
  \A p \in Live : \A i \in 0..Len(inbox[p]) :
    \A st \in ClientStates(SubSeq(inbox[p], 1, i)) :
      /\ st.counter = Cardinality(st.debtors)
      /\ st.counter >= 0

====
